---------------------------- MODULE Spec2Model ----------------------------
(***************************************************************************)
(* Model of Kixunil/rust_random_stuff:                                     *)
(*   src/src/ops.rs     checked arithmetic (ArithmeticTryOps)              *)
(*   src/src/error.rs   causal-chain formatter (JoinErrorSources)          *)
(*   src/src/result.rs  UnwrapOrExit and LogResult adapters                *)
(*                                                                         *)
(* Five specifications share the module:                                   *)
(*   SpecArith  one call of an ArithmeticTryOps method on drawn operands   *)
(*   SpecJoin   <JoinErrorSources as Display>::fmt, one write per step     *)
(*   SpecResult one call of a LogResult / UnwrapOrExit method, one         *)
(*              closure call, logger call or process exit per step         *)
(*   SpecLogger one call of a LogOwned / Log method on a logger behind     *)
(*              `&mut` wrappers, one forwarding call per step              *)
(*   SpecTerm   From<E> for TerminatingError and its Debug rendering       *)
(***************************************************************************)
EXTENDS Integers, Sequences, FiniteSets, TLC

\* ------------------------------------------------------------------------
\* Bounds
\* ------------------------------------------------------------------------
\* Integer types [signed, bits] are enumerated in full for 2..MaxWidth bits.
MaxWidth == 4
\* u32 right operands (exponent, shift amount) range over 0..MaxAmount.
MaxAmount == 9
\* Longest causal chain (number of error nodes).
MaxChain == 3
\* Deepest nesting of `&mut` around a logger (&mut &mut T is 2).
MaxWrap == 2

VARIABLES
    \* --- ops.rs: one method call `self.try_op(other)` ---
    ty,        \* the implementing integer type, [signed, bits]
    self,      \* left operand, a value of ty
    other,     \* right operand of type Self
    amount,    \* right operand of type u32 (try_pow, try_shl, try_shr)
    op,        \* method that has been called, "none" before the call
    ret,       \* its return value, a Result
    \* --- error.rs: JoinErrorSources::fmt ---
    error,     \* JoinErrorSources.error: the chain, root first, as messages
    separator, \* JoinErrorSources.separator
    source,    \* the local `source`: index of the next node, 0 for None
    f,         \* the text written to the Formatter so far
    fpc,       \* position in fmt
    \* --- result.rs: one method call on a Result ---
    result,    \* the receiver `self`
    call,      \* the method called and its arguments, "none" before
    rpc,       \* position in the method
    body,      \* statements of the error closure still to be executed
    held,      \* the closure's `error`: owned, or moved out
    converted, \* the local `converted` of convert_and_consume_err
    events,    \* calls of closures, logger, eprintln! and exit, in order
    exit_status, \* status passed to std::process::exit, -1 while running
    returned,  \* value returned to the caller, "none" before the return
    \* --- result.rs: one LogOwned / Log method call on a logger ---
    lcall,     \* the call made by the user of the logger
    wrappers,  \* `&mut` layers still around the receiver of the method
    lmethod,   \* the method now executing: its tier and level
    lerror,    \* the error argument: owned by a frame, or dropped
    observed,  \* calls that reached the logger's own Log methods
    lpc,       \* position in the call
    \* --- error.rs: TerminatingError ---
    value,     \* the concrete error handed to From::from
    terminating, \* the TerminatingError built from it, "none" before
    arg0,      \* std::env::args_os().next(): the text of the path, or None
    tpc        \* position in from / <TerminatingError as Debug>::fmt

arithVars == <<ty, self, other, amount, op, ret>>
joinVars == <<error, separator, source, f, fpc>>
resultVars == <<result, call, rpc, body, held, converted, events,
                exit_status, returned>>
loggerVars == <<lcall, wrappers, lmethod, lerror, observed, lpc>>
termVars == <<value, terminating, arg0, tpc>>
vars == <<ty, self, other, amount, op, ret,
          error, separator, source, f, fpc,
          result, call, rpc, body, held, converted, events,
          exit_status, returned,
          lcall, wrappers, lmethod, lerror, observed, lpc,
          value, terminating, arg0, tpc>>

\* ------------------------------------------------------------------------
\* Integer types and the checked_* primitives called by ops.rs
\* ------------------------------------------------------------------------
Pow2(n) == 2^n

\* impl_arith_op!(u8, ..., i8, ...): a type is a signedness and a bit width.
IntType(s, b) == [signed |-> s, bits |-> b]
EnumTypes == {IntType(s, b) : s \in BOOLEAN, b \in 2..MaxWidth}
U8 == IntType(FALSE, 8)
I8 == IntType(TRUE, 8)
Types == EnumTypes \cup {U8, I8}

MinOf(t) == IF t.signed THEN -Pow2(t.bits - 1) ELSE 0
MaxOf(t) == IF t.signed THEN Pow2(t.bits - 1) - 1 ELSE Pow2(t.bits) - 1
Range(t) == MinOf(t)..MaxOf(t)

\* Two's-complement truncation of an exact integer to the type.
Wrap(t, x) ==
    LET m == x % Pow2(t.bits)
    IN IF t.signed /\ m >= Pow2(t.bits - 1) THEN m - Pow2(t.bits) ELSE m

Some(v) == [tag |-> "Some", val |-> v]
None == [tag |-> "None"]
Ok(v) == [tag |-> "Ok", val |-> v]
Err(e) == [tag |-> "Err", err |-> e]

\* Option::ok_or
ok_or(opt, e) == IF opt.tag = "Some" THEN Ok(opt.val) ELSE Err(e)

\* checked_add: the wrapped sum, None when the add carried (unsigned) or
\* when equal-signed operands gave a sum of the other sign (signed).
checked_add(t, a, b) ==
    LET r == Wrap(t, a + b)
        o == IF t.signed
             THEN ((a >= 0) = (b >= 0)) /\ ((r >= 0) # (a >= 0))
             ELSE r < a
    IN IF o THEN None ELSE Some(r)

\* checked_sub: None on borrow (unsigned) or when operands of different
\* sign gave a difference whose sign is not that of the minuend (signed).
checked_sub(t, a, b) ==
    LET r == Wrap(t, a - b)
        o == IF t.signed
             THEN ((a >= 0) # (b >= 0)) /\ ((r >= 0) # (a >= 0))
             ELSE a < b
    IN IF o THEN None ELSE Some(r)

\* checked_mul: widening multiply; None when the high half is not the
\* zero / sign extension of the low half.
checked_mul(t, a, b) ==
    LET wide == a * b
        low == Wrap(t, wide)
        high == (wide - low) \div Pow2(t.bits)
    IN IF high # 0 THEN None ELSE Some(low)

\* checked_pow: exponentiation by squaring over checked_mul.
RECURSIVE pow_loop(_, _, _, _)
pow_loop(t, base, acc, exp) ==
    LET acc1 == IF exp % 2 = 1 THEN checked_mul(t, acc, base) ELSE Some(acc)
    IN IF acc1.tag = "None" THEN None
       ELSE IF exp = 1 THEN acc1
       ELSE LET base1 == checked_mul(t, base, base)
            IN IF base1.tag = "None" THEN None
               ELSE pow_loop(t, base1.val, acc1.val, exp \div 2)

checked_pow(t, a, e) == IF e = 0 THEN Some(1) ELSE pow_loop(t, a, 1, e)

Abs(x) == IF x < 0 THEN -x ELSE x
Sgn(x) == IF x < 0 THEN -1 ELSE IF x > 0 THEN 1 ELSE 0

\* The primitive `/` and `%`: quotient truncated toward zero, remainder
\* with the sign of the dividend.
TruncDiv(a, b) == Sgn(a) * Sgn(b) * (Abs(a) \div Abs(b))
TruncRem(a, b) == Sgn(a) * (Abs(a) % Abs(b))

\* checked_div / checked_rem / *_euclid: None when rhs == 0 or when the
\* division overflows (signed MIN / -1).
DivOverflows(t, a, b) == t.signed /\ a = MinOf(t) /\ b = -1

checked_div(t, a, b) ==
    IF b = 0 \/ DivOverflows(t, a, b) THEN None ELSE Some(TruncDiv(a, b))

checked_rem(t, a, b) ==
    IF b = 0 \/ DivOverflows(t, a, b) THEN None ELSE Some(TruncRem(a, b))

\* div_euclid: q = self / rhs, corrected by one when self % rhs < 0.
div_euclid(a, b) ==
    LET q == TruncDiv(a, b)
    IN IF TruncRem(a, b) < 0
       THEN (IF b > 0 THEN q - 1 ELSE q + 1)
       ELSE q

\* rem_euclid: r = self % rhs, plus |rhs| when r < 0.
rem_euclid(a, b) ==
    LET r == TruncRem(a, b)
    IN IF r < 0 THEN r + Abs(b) ELSE r

checked_div_euclid(t, a, b) ==
    IF b = 0 \/ DivOverflows(t, a, b) THEN None ELSE Some(div_euclid(a, b))

checked_rem_euclid(t, a, b) ==
    IF b = 0 \/ DivOverflows(t, a, b) THEN None ELSE Some(rem_euclid(a, b))

\* unchecked_shl: the low `bits` bits of self * 2^n.
unchecked_shl(t, a, n) == Wrap(t, a * Pow2(n))

\* unchecked_shr: logical for unsigned, arithmetic (sign-filling) for
\* signed; both are the floor of self / 2^n.
unchecked_shr(t, a, n) == (a - (a % Pow2(n))) \div Pow2(n)

\* checked_shl / checked_shr: None unless rhs < Self::BITS.
checked_shl(t, a, n) == IF n < t.bits THEN Some(unchecked_shl(t, a, n)) ELSE None
checked_shr(t, a, n) == IF n < t.bits THEN Some(unchecked_shr(t, a, n)) ELSE None

\* ------------------------------------------------------------------------
\* ops.rs: the error values and the ArithmeticTryOps methods
\* ------------------------------------------------------------------------
OverflowError(left, o, right) ==
    [kind |-> "OverflowError", left |-> left, op |-> o, right |-> right]
DivisionByZeroError(left) ==
    [kind |-> "DivisionByZeroError", left |-> left]
BigShiftError(left, o, right) ==
    [kind |-> "BigShiftError", left |-> left, op |-> o, right |-> right]

\* try_add built on wrapping_add: the truncated sum, never a failure.
try_add_wrapping(t, a, b) == Ok(Wrap(t, a + b))
try_add(t, a, b) == ok_or(checked_add(t, a, b), OverflowError(a, "+", b))
try_sub(t, a, b) == ok_or(checked_sub(t, a, b), OverflowError(a, "-", b))
try_mul(t, a, b) == ok_or(checked_mul(t, a, b), OverflowError(a, "*", b))
try_pow(t, a, e) == ok_or(checked_pow(t, a, e), OverflowError(a, "**", e))
\* try_div guarding only the zero divisor and dividing with wrap-around.
try_div_wrapping(t, a, b) ==
    IF b = 0 THEN Err(DivisionByZeroError(a))
    ELSE Ok(Wrap(t, TruncDiv(a, b)))
try_div(t, a, b) == ok_or(checked_div(t, a, b), DivisionByZeroError(a))
try_div_euclid(t, a, b) ==
    ok_or(checked_div_euclid(t, a, b), DivisionByZeroError(a))
try_rem(t, a, b) == ok_or(checked_rem(t, a, b), DivisionByZeroError(a))
\* try_rem_euclid calling checked_rem.
try_rem_euclid_truncating(t, a, b) ==
    ok_or(checked_rem(t, a, b), DivisionByZeroError(a))
try_rem_euclid(t, a, b) ==
    ok_or(checked_rem_euclid(t, a, b), DivisionByZeroError(a))
\* try_shl accepting a shift by the full bit width.
try_shl_full_width(t, a, n) ==
    IF n <= t.bits THEN Ok(unchecked_shl(t, a, n))
    ELSE Err(BigShiftError(a, "<<", n))
try_shl(t, a, n) == ok_or(checked_shl(t, a, n), BigShiftError(a, "<<", n))
try_shr(t, a, n) == ok_or(checked_shr(t, a, n), BigShiftError(a, ">>", n))

\* Operands drawn for a call: every value of the small types, the values
\* around the ends of the range and around zero for the 8-bit types.
Operands(t) ==
    IF t.bits <= MaxWidth THEN Range(t)
    ELSE {MinOf(t), MinOf(t) + 1, -2, -1, 0, 1, 2, 3, 15, 16, 17,
          MaxOf(t) \div 2, MaxOf(t) \div 2 + 1, MaxOf(t) - 1, MaxOf(t)}
         \cap Range(t)


\* ------------------------------------------------------------------------
\* States in which a part of the program has not been entered
\* ------------------------------------------------------------------------
NoCall == [name |-> "none"]
NoValue == [tag |-> "none"]

ArithIdle ==
    /\ ty = U8 /\ self = 0 /\ other = 0 /\ amount = 0
    /\ op = "none" /\ ret = NoValue

JoinIdle ==
    /\ error = <<>> /\ separator = "" /\ source = 0 /\ f = ""
    /\ fpc = "idle"

ResultIdle ==
    /\ result = NoValue /\ call = NoCall /\ rpc = "idle" /\ body = <<>>
    /\ held = NoValue /\ converted = NoValue /\ events = <<>>
    /\ exit_status = -1 /\ returned = NoValue

LoggerIdle ==
    /\ lcall = NoCall /\ wrappers = 0 /\ lmethod = NoCall
    /\ lerror = NoValue /\ observed = <<>> /\ lpc = "idle"

TermIdle ==
    /\ value = NoValue /\ terminating = NoValue /\ arg0 = None
    /\ tpc = "idle"

\* ------------------------------------------------------------------------
\* SpecArith: one ArithmeticTryOps call
\* ------------------------------------------------------------------------
\* A method reads `other` or `amount`, never both, so the operands are
\* drawn as (self, other) with amount 0 or as (self, amount) with other 0.
InitArith ==
    /\ ty \in Types
    /\ self \in Operands(ty)
    /\ \/ other \in Operands(ty) /\ amount = 0
       \/ other = 0 /\ amount \in 0..MaxAmount
    /\ op = "none"
    /\ ret = NoValue
    /\ JoinIdle
    /\ ResultIdle
    /\ LoggerIdle
    /\ TermIdle

Called(name, r) ==
    /\ op = "none"
    /\ op' = name
    /\ ret' = r
    /\ UNCHANGED <<ty, self, other, amount>>
    /\ UNCHANGED joinVars
    /\ UNCHANGED resultVars
    /\ UNCHANGED loggerVars
    /\ UNCHANGED termVars

TryAdd == Called("try_add", try_add(ty, self, other))
TrySub == Called("try_sub", try_sub(ty, self, other))
TryMul == Called("try_mul", try_mul(ty, self, other))
TryPow == Called("try_pow", try_pow(ty, self, amount))
TryDiv == Called("try_div", try_div(ty, self, other))
TryDivEuclid == Called("try_div_euclid", try_div_euclid(ty, self, other))
TryRem == Called("try_rem", try_rem(ty, self, other))
TryRemEuclid == Called("try_rem_euclid", try_rem_euclid(ty, self, other))
TryShl == Called("try_shl", try_shl(ty, self, amount))
TryShr == Called("try_shr", try_shr(ty, self, amount))

NextArith ==
    \/ TryAdd
    \/ TrySub
    \/ TryMul
    \/ TryPow
    \/ TryDiv
    \/ TryDivEuclid
    \/ TryRem
    \/ TryRemEuclid
    \/ TryShl
    \/ TryShr

SpecArith == InitArith /\ [][NextArith]_vars

\* ------------------------------------------------------------------------
\* Properties of SpecArith
\* ------------------------------------------------------------------------
InRange(t, x) == MinOf(t) <= x /\ x <= MaxOf(t)

\* The exact power self^e, clamped to [-2^bits, 2^bits]: a power outside
\* the type's range stays outside it, so the clamp decides membership in
\* the range and equals the exact power whenever that is in range.
RECURSIVE ClampedPow(_, _, _)
ClampedPow(t, a, e) ==
    IF e = 0 THEN 1
    ELSE LET p == a * ClampedPow(t, a, e - 1)
             cap == Pow2(t.bits)
         IN IF p > cap THEN cap ELSE IF p < -cap THEN -cap ELSE p

\* The exact result of the overflowing operation that was called.
Exact ==
    CASE op = "try_add" -> self + other
      [] op = "try_sub" -> self - other
      [] op = "try_mul" -> self * other
      [] op = "try_pow" -> ClampedPow(ty, self, amount)

OverflowOps == {"try_add", "try_sub", "try_mul", "try_pow"}
OpSymbol ==
    [o \in OverflowOps |->
        CASE o = "try_add" -> "+" [] o = "try_sub" -> "-"
          [] o = "try_mul" -> "*" [] o = "try_pow" -> "**"]
RightOperand == IF op = "try_pow" THEN amount ELSE other

\* C1: try_add, try_sub, try_mul and try_pow succeed iff the exact result
\* lies in the type's range, the success value is that exact result, and
\* the failure is an OverflowError holding the unchanged left operand, the
\* unchanged right operand (the u32 exponent for try_pow) and the operator
\* symbol "+", "-", "*" or "**".
C1_OverflowingOpsExact ==
    op \in OverflowOps =>
        IF InRange(ty, Exact)
        THEN ret = Ok(Exact)
        ELSE ret = Err(OverflowError(self, OpSymbol[op], RightOperand))

\* 255u8.try_add(1) has failed.
C1_Witness ==
    /\ op = "try_add" /\ ty = U8 /\ self = 255 /\ other = 1
    /\ ret.tag = "Err"

DivOps == {"try_div", "try_div_euclid", "try_rem", "try_rem_euclid"}

\* C2: try_div, try_div_euclid, try_rem and try_rem_euclid fail exactly
\* when the divisor is zero: a DivisionByZeroError carrying the dividend is
\* returned if other = 0 and never for a nonzero divisor.
C2_DivisionFailsIffZeroDivisor ==
    op \in DivOps =>
        /\ ret.tag = "Err" <=> other = 0
        /\ ret.tag = "Err" => ret.err = DivisionByZeroError(self)

\* C3: for a signed type, try_div, try_div_euclid, try_rem and
\* try_rem_euclid of the minimum value by -1 return a failure, never a
\* success value.
C3_SignedMinByMinusOneFails ==
    (op \in DivOps /\ ty.signed /\ self = MinOf(ty) /\ other = -1) =>
        ret.tag = "Err"

\* i8::MIN.try_rem_euclid(-1) has returned.
C3_Witness ==
    /\ op = "try_rem_euclid" /\ ty = I8 /\ self = -128 /\ other = -1
    /\ ret.tag = "Err"

\* C4: where the division operations succeed, try_div = q and try_rem = r
\* satisfy self = q*other + r with |r| < |other| and r zero or of the sign
\* of self; try_div_euclid = q' and try_rem_euclid = r' satisfy
\* self = q'*other + r' with 0 <= r' < |other|.  The value returned by the
\* called method is paired with the value of its companion method.
C4_DivRemIdentities ==
    (op \in DivOps /\ ret.tag = "Ok") =>
        LET q == IF op = "try_div" THEN ret
                 ELSE try_div(ty, self, other)
            r == IF op = "try_rem" THEN ret
                 ELSE try_rem(ty, self, other)
            qe == IF op = "try_div_euclid" THEN ret
                  ELSE try_div_euclid(ty, self, other)
            re == IF op = "try_rem_euclid" THEN ret
                  ELSE try_rem_euclid(ty, self, other)
        IN /\ q.tag = "Ok" /\ r.tag = "Ok" /\ qe.tag = "Ok" /\ re.tag = "Ok"
           /\ self = q.val * other + r.val
           /\ Abs(r.val) < Abs(other)
           /\ r.val = 0 \/ Sgn(r.val) = Sgn(self)
           /\ self = qe.val * other + re.val
           /\ 0 <= re.val /\ re.val < Abs(other)

\* A negative dividend with a nonzero remainder has been divided by a
\* negative divisor with try_div_euclid.
C4_Witness ==
    /\ op = "try_div_euclid" /\ self = -7 /\ other = -2
    /\ ret = Ok(4)

\* Bit i (0 = least significant) of the two's-complement representation.
Bit(t, x, i) == ((x % Pow2(t.bits)) \div Pow2(i)) % 2

\* C5: try_shl and try_shr fail with a BigShiftError holding self, "<<" or
\* ">>" and the amount iff amount >= the bit width; otherwise they succeed
\* with the shifted value: every bit moved by `amount` places, bits moved
\* out discarded, zeros shifted in (copies of the sign bit for >> on a
\* signed type).
C5_ShiftChecked ==
    op \in {"try_shl", "try_shr"} =>
        IF amount >= ty.bits
        THEN ret = Err(BigShiftError(self,
                         IF op = "try_shl" THEN "<<" ELSE ">>", amount))
        ELSE /\ ret.tag = "Ok"
             /\ InRange(ty, ret.val)
             /\ \A i \in 0..(ty.bits - 1) :
                    Bit(ty, ret.val, i) =
                        IF op = "try_shl"
                        THEN (IF i >= amount THEN Bit(ty, self, i - amount)
                              ELSE 0)
                        ELSE (IF i + amount < ty.bits
                              THEN Bit(ty, self, i + amount)
                              ELSE IF ty.signed
                                   THEN Bit(ty, self, ty.bits - 1)
                                   ELSE 0)

\* 1u8.try_shl(8) has failed.
C5_Witness ==
    /\ op = "try_shl" /\ ty = U8 /\ self = 1 /\ amount = 8
    /\ ret = Err(BigShiftError(1, "<<", 8))


\* ------------------------------------------------------------------------
\* error.rs: causal chains and <JoinErrorSources as Display>::fmt
\* ------------------------------------------------------------------------
\* An error value is its causal chain: the sequence of the Display texts of
\* the error, its source, the source of that, ...  Node i is the error
\* reached after i - 1 calls of source().
Messages == {"m0", "m1", "io"}
Separators == {": ", "; ", "\n\tcaused by: "}

RECURSIVE SeqsUpTo(_, _)
SeqsUpTo(S, n) ==
    IF n = 0 THEN {<<>>}
    ELSE LET shorter == SeqsUpTo(S, n - 1)
         IN shorter \cup {Append(c, m) : c \in shorter, m \in S}

Chains == SeqsUpTo(Messages, MaxChain) \ {<<>>}

\* std::error::Error::source of node i: the next node, 0 for None.
SourceOf(chain, i) == IF i < Len(chain) THEN i + 1 ELSE 0

InitJoin ==
    /\ error \in Chains
    /\ separator \in Separators
    /\ source = 0
    /\ f = ""
    /\ fpc = "start"
    /\ ArithIdle
    /\ ResultIdle
    /\ LoggerIdle
    /\ TermIdle

\* fmt::Display::fmt(self.error, f)?; let mut source = self.error.source();
FmtError ==
    /\ fpc = "start"
    /\ f' = f \o error[1]
    /\ source' = SourceOf(error, 1)
    /\ fpc' = "while"
    /\ UNCHANGED <<error, separator>>
    /\ UNCHANGED arithVars
    /\ UNCHANGED resultVars
    /\ UNCHANGED loggerVars
    /\ UNCHANGED termVars

\* while let Some(error) = source { fmt::Display::fmt(self.separator, f)?;
FmtSeparator ==
    /\ fpc = "while"
    /\ source # 0
    /\ f' = f \o separator
    /\ fpc' = "source"
    /\ UNCHANGED <<error, separator, source>>
    /\ UNCHANGED arithVars
    /\ UNCHANGED resultVars
    /\ UNCHANGED loggerVars
    /\ UNCHANGED termVars

\* The loop body formatting self.error in place of the loop's `error`.
FmtSourceShadowed ==
    /\ fpc = "source"
    /\ f' = f \o error[1]
    /\ source' = SourceOf(error, source)
    /\ fpc' = "while"
    /\ UNCHANGED <<error, separator>>
    /\ UNCHANGED arithVars
    /\ UNCHANGED resultVars
    /\ UNCHANGED loggerVars
    /\ UNCHANGED termVars

\* fmt::Display::fmt(error, f)?; source = error.source(); }
FmtSource ==
    /\ fpc = "source"
    /\ f' = f \o error[source]
    /\ source' = SourceOf(error, source)
    /\ fpc' = "while"
    /\ UNCHANGED <<error, separator>>
    /\ UNCHANGED arithVars
    /\ UNCHANGED resultVars
    /\ UNCHANGED loggerVars
    /\ UNCHANGED termVars

\* Ok(())
FmtReturn ==
    /\ fpc = "while"
    /\ source = 0
    /\ fpc' = "done"
    /\ UNCHANGED <<error, separator, source, f>>
    /\ UNCHANGED arithVars
    /\ UNCHANGED resultVars
    /\ UNCHANGED loggerVars
    /\ UNCHANGED termVars

NextJoin ==
    \/ FmtError
    \/ FmtSeparator
    \/ FmtSource
    \/ FmtReturn

\* fmt is straight-line sequential code: a step that can be taken is taken.
SpecJoin == InitJoin /\ [][NextJoin]_vars /\ WF_vars(NextJoin)

\* The whole loop at once: the text fmt writes for a chain, as used where
\* a chain is formatted inside one statement (eprintln!, error.rs:54).
RECURSIVE fmt_while(_, _, _, _)
fmt_while(chain, sep, src, out) ==
    IF src = 0 THEN out
    ELSE fmt_while(chain, sep, SourceOf(chain, src),
                   (out \o sep) \o chain[src])

join_sources(chain, sep) ==
    fmt_while(chain, sep, SourceOf(chain, 1), chain[1])

\* ------------------------------------------------------------------------
\* Properties of SpecJoin
\* ------------------------------------------------------------------------
\* m0 s m1 s ... s mN, defined on the chain from its root: the root message
\* alone for one node, else the root message, the separator and the join
\* of the rest.
RECURSIVE Joined(_, _)
Joined(chain, sep) ==
    IF Len(chain) = 1 THEN chain[1]
    ELSE chain[1] \o (sep \o Joined(Tail(chain), sep))

\* C6: for every chain m0..mN and separator s, rendering join_sources(s)
\* terminates, and when it has returned the text written is exactly
\* m0 s m1 s ... s mN (just m0 for a chain of one node).
C6_JoinSourcesRenders ==
    /\ [](fpc = "done" => f = Joined(error, separator))
    /\ <>(fpc = "done")

\* The chain [m0, m1, io] has been rendered with "; ".
C6_Witness ==
    /\ fpc = "done"
    /\ error = <<"m0", "m1", "io">> /\ separator = "; "
    /\ f = "m0; m1; io"


\* ------------------------------------------------------------------------
\* result.rs: IntoResult, UnwrapOrExit and LogResult
\* ------------------------------------------------------------------------
Levels == {"error", "warning", "info", "debug", "trace"}

\* Arguments drawn for a call.
OkValues == {7, 8}
LogMessages == {"ctx", "request failed"}
Replacements == {"E404", "E500"}
\* Caller-supplied `convert` closures: the root message of the error, or
\* a category chosen by whether the error has a source.
ConvertFns == {"root_message", "has_source"}
Results == {Ok(v) : v \in OkValues} \cup {Err(e) : e \in Chains}

Owned(e) == [tag |-> "Owned", val |-> e]
Moved == [tag |-> "Moved"]
Value(v) == [tag |-> "Value", val |-> v]

\* Status passed to std::process::exit.
ExitStatus == 2

\* convert_and_consume_err consuming the error before converting it.
consume_then_convert == <<"consume", "convert">>
\* unwrap_or_exit_custom exiting before the printer has run.
exit_then_printer == <<"exit", "printer">>

\* The statements of the closures run on the error, in program order.
\* with_err:                 |error| { fun(&error); error }
with_err_closure == <<"fun">>
\* convert_and_consume_err:  |error| { let converted = convert(&error);
\*                                     consume(error); converted }
convert_and_consume_err_closure == <<"convert", "consume">>
\* unwrap_or_exit_custom:    |error| { printer(error);
\*                                     std::process::exit(2); }
unwrap_or_exit_custom_closure == <<"printer", "exit">>

\* log_warning calling logger.log_error.
log_method_warning_as_error(l) ==
    CASE l = "error" -> "log_error"
      [] l = "warning" -> "log_error"
      [] l = "info" -> "log_info"
      [] l = "debug" -> "log_debug"
      [] l = "trace" -> "log_trace"

\* log_<level>: the Log method its closure calls.
log_method(l) ==
    CASE l = "error" -> "log_error"
      [] l = "warning" -> "log_warning"
      [] l = "info" -> "log_info"
      [] l = "debug" -> "log_debug"
      [] l = "trace" -> "log_trace"

\* log_info_and_replace delegating to log_debug_and_replace_with.
replace_with_of_info_as_debug(l) ==
    CASE l = "error" -> "error"
      [] l = "warning" -> "warning"
      [] l = "info" -> "debug"
      [] l = "debug" -> "debug"
      [] l = "trace" -> "trace"

\* log_<level>_and_replace: the level of the log_*_and_replace_with method
\* it delegates to.
replace_with_of(l) ==
    CASE l = "error" -> "error"
      [] l = "warning" -> "warning"
      [] l = "info" -> "info"
      [] l = "debug" -> "debug"
      [] l = "trace" -> "trace"

\* log_<level>_and_replace_with: the LogOwned method its `consume` closure
\* calls.
log_owned_method(l) ==
    CASE l = "error" -> "log_error_owned"
      [] l = "warning" -> "log_warning_owned"
      [] l = "info" -> "log_info_owned"
      [] l = "debug" -> "log_debug_owned"
      [] l = "trace" -> "log_trace_owned"

\* A `convert` closure applied to &error.  `move |_| replacement` ignores
\* its argument; a caller's closure reads the error it borrows.
ApplyConvert(c, h) ==
    IF c.kind = "replacement" THEN c.value
    ELSE IF h.tag # "Owned" THEN "use of moved error"
    ELSE IF c.name = "root_message" THEN h.val[1]
    ELSE IF Len(h.val) > 1 THEN "E500" ELSE "E404"

\* Display of an error value: its own message.
Display(e) == e[1]

\* Debug ({:?}) of an error value: a rendering of the value with the
\* values it owns.
RECURSIVE Debug(_)
Debug(e) ==
    IF Len(e) = 1 THEN "Error(" \o (e[1] \o ")")
    ELSE "Error(" \o (e[1] \o (", source: " \o (Debug(Tail(e)) \o ")")))

Call(name, level, message, fun, convert, consume, printer) ==
    [name |-> name, level |-> level, message |-> message, fun |-> fun,
     convert |-> convert, consume |-> consume, printer |-> printer]

InitResult ==
    /\ result \in Results
    /\ call = NoCall
    /\ rpc = "idle"
    /\ body = <<>>
    /\ held = NoValue
    /\ converted = NoValue
    /\ events = <<>>
    /\ exit_status = -1
    /\ returned = NoValue
    /\ ArithIdle
    /\ JoinIdle
    /\ LoggerIdle
    /\ TermIdle

\* self.internal_into_result().map_err(closure): a success is returned as
\* it is, on a failure the closure is entered with the error moved in.
MapErr(c, closure) ==
    /\ rpc = "idle"
    /\ call' = c
    /\ IF result.tag = "Ok"
       THEN /\ returned' = result
            /\ rpc' = "done"
            /\ UNCHANGED <<body, held>>
       ELSE /\ held' = Owned(result.err)
            /\ body' = closure
            /\ rpc' = "closure"
            /\ UNCHANGED returned
    /\ UNCHANGED <<result, converted, events, exit_status>>
    /\ UNCHANGED arithVars
    /\ UNCHANGED joinVars
    /\ UNCHANGED loggerVars
    /\ UNCHANGED termVars

\* self.internal_into_result().unwrap_or_else(closure): a success returns
\* its value.
UnwrapOrElse(c, closure) ==
    /\ rpc = "idle"
    /\ call' = c
    /\ IF result.tag = "Ok"
       THEN /\ returned' = Value(result.val)
            /\ rpc' = "done"
            /\ UNCHANGED <<body, held>>
       ELSE /\ held' = Owned(result.err)
            /\ body' = closure
            /\ rpc' = "closure"
            /\ UNCHANGED returned
    /\ UNCHANGED <<result, converted, events, exit_status>>
    /\ UNCHANGED arithVars
    /\ UNCHANGED joinVars
    /\ UNCHANGED loggerVars
    /\ UNCHANGED termVars

\* log_error .. log_trace
LogLevel ==
    \E l \in Levels, m \in LogMessages :
        MapErr(Call("log", l, m, log_method(l), NoValue, "-", "-"),
               with_err_closure)

\* The body of log_<l>_and_replace_with: convert_and_consume_err(convert,
\* |error| logger.log_<l>_owned(message, error)).  `name` and `called`
\* record the method the caller invoked.
log_level_and_replace_with(name, called, l, m, convert) ==
    MapErr(Call(name, called, m, "-", convert, log_owned_method(l), "-"),
           convert_and_consume_err_closure)

\* log_error_and_replace_with .. log_trace_and_replace_with
LogLevelAndReplaceWith ==
    \E l \in Levels, m \in LogMessages, c \in ConvertFns :
        log_level_and_replace_with("log_and_replace_with", l, l, m,
            [kind |-> "closure", name |-> c])

\* log_error_and_replace .. log_trace_and_replace:
\* self.log_<l>_and_replace_with(logger, message, move |_| replacement)
LogLevelAndReplace ==
    \E l \in Levels, m \in LogMessages, r \in Replacements :
        log_level_and_replace_with("log_and_replace", l,
            replace_with_of(l), m, [kind |-> "replacement", value |-> r])

\* unwrap_or_exit_custom(printer) with a caller's printer
UnwrapOrExitCustom ==
    UnwrapOrElse(Call("unwrap_or_exit_custom", "-", "-", "-", NoValue, "-",
                      "printer"),
                 unwrap_or_exit_custom_closure)

\* unwrap_or_exit: printer = eprintln!("Error: {}", error.join_sources(": "))
UnwrapOrExit ==
    UnwrapOrElse(Call("unwrap_or_exit", "-", "-", "-", NoValue, "-",
                      "join_sources"),
                 unwrap_or_exit_custom_closure)

\* unwrap_or_exit_display: printer = eprintln!("Error: {}", error)
UnwrapOrExitDisplay ==
    UnwrapOrElse(Call("unwrap_or_exit_display", "-", "-", "-", NoValue, "-",
                      "display"),
                 unwrap_or_exit_custom_closure)

\* unwrap_or_exit_debug: printer = eprintln!("Error: {:?}", error)
UnwrapOrExitDebug ==
    UnwrapOrElse(Call("unwrap_or_exit_debug", "-", "-", "-", NoValue, "-",
                      "debug"),
                 unwrap_or_exit_custom_closure)

\* unwrap_or_exit_log: printer = logger.log_error_owned("Error", error)
UnwrapOrExitLog ==
    UnwrapOrElse(Call("unwrap_or_exit_log", "-", "Error", "-", NoValue,
                      "log_error_owned", "log_owned"),
                 unwrap_or_exit_custom_closure)

LogEvent(method, message, h) ==
    [kind |-> "Log", method |-> method, message |-> message, error |-> h]
LogOwnedEvent(method, message, h) ==
    [kind |-> "LogOwned", method |-> method, message |-> message,
     error |-> h]
ConvertEvent(c, h) == [kind |-> "convert", closure |-> c, error |-> h]
PrinterEvent(h) == [kind |-> "printer", error |-> h]
EprintlnEvent(line) == [kind |-> "eprintln", line |-> line]
ExitEvent(status) == [kind |-> "exit", status |-> status]

\* A statement of the closure is executed when it is the next of `body`.
AtStatement(stmt) ==
    /\ rpc = "closure"
    /\ body # <<>>
    /\ Head(body) = stmt
    /\ body' = Tail(body)

\* with_err: fun(&error), which is logger.log_<level>(message, error);
\* the error is only borrowed.
WithErrFun ==
    /\ AtStatement("fun")
    /\ events' = Append(events, LogEvent(call.fun, call.message, held))
    /\ UNCHANGED <<result, call, rpc, held, converted, exit_status,
                   returned>>
    /\ UNCHANGED arithVars
    /\ UNCHANGED joinVars
    /\ UNCHANGED loggerVars
    /\ UNCHANGED termVars

\* convert_and_consume_err: let converted = convert(&error);
Convert ==
    /\ AtStatement("convert")
    /\ converted' = ApplyConvert(call.convert, held)
    /\ events' = Append(events, ConvertEvent(call.convert, held))
    /\ UNCHANGED <<result, call, rpc, held, exit_status, returned>>
    /\ UNCHANGED arithVars
    /\ UNCHANGED joinVars
    /\ UNCHANGED loggerVars
    /\ UNCHANGED termVars

\* convert_and_consume_err: consume(error), which is
\* logger.log_<level>_owned(message, error); the error is moved out.
Consume ==
    /\ AtStatement("consume")
    /\ events' = Append(events,
                        LogOwnedEvent(call.consume, call.message, held))
    /\ held' = Moved
    /\ UNCHANGED <<result, call, rpc, converted, exit_status, returned>>
    /\ UNCHANGED arithVars
    /\ UNCHANGED joinVars
    /\ UNCHANGED loggerVars
    /\ UNCHANGED termVars

\* unwrap_or_exit_custom: printer(error); the error is moved into the
\* printer.
PrinterCall(p, h) ==
    CASE p = "printer" -> PrinterEvent(h)
      [] p = "join_sources" ->
            EprintlnEvent("Error: " \o join_sources(h.val, ": "))
      [] p = "display" -> EprintlnEvent("Error: " \o Display(h.val))
      [] p = "debug" -> EprintlnEvent("Error: " \o Debug(h.val))
      [] p = "log_owned" -> LogOwnedEvent(call.consume, call.message, h)

Printer ==
    /\ AtStatement("printer")
    /\ events' = Append(events, PrinterCall(call.printer, held))
    /\ held' = Moved
    /\ UNCHANGED <<result, call, rpc, converted, exit_status, returned>>
    /\ UNCHANGED arithVars
    /\ UNCHANGED joinVars
    /\ UNCHANGED loggerVars
    /\ UNCHANGED termVars

\* unwrap_or_exit_custom: std::process::exit(2); the process ends here.
Exit ==
    /\ AtStatement("exit")
    /\ events' = Append(events, ExitEvent(ExitStatus))
    /\ exit_status' = ExitStatus
    /\ rpc' = "exited"
    /\ UNCHANGED <<result, call, held, converted, returned>>
    /\ UNCHANGED arithVars
    /\ UNCHANGED joinVars
    /\ UNCHANGED loggerVars
    /\ UNCHANGED termVars

\* The value of a map_err closure: with_err gives back `error`,
\* convert_and_consume_err gives `converted`.
ClosureValue ==
    IF call.name = "log" THEN (IF held.tag = "Owned" THEN held.val ELSE held)
    ELSE converted

\* The closure has run to its end: map_err returns Err(value of closure).
MapErrReturn ==
    /\ rpc = "closure"
    /\ body = <<>>
    /\ returned' = Err(ClosureValue)
    /\ rpc' = "done"
    /\ UNCHANGED <<result, call, body, held, converted, events,
                   exit_status>>
    /\ UNCHANGED arithVars
    /\ UNCHANGED joinVars
    /\ UNCHANGED loggerVars
    /\ UNCHANGED termVars

NextResult ==
    \/ LogLevel
    \/ LogLevelAndReplace
    \/ LogLevelAndReplaceWith
    \/ UnwrapOrExitCustom
    \/ UnwrapOrExit
    \/ UnwrapOrExitDisplay
    \/ UnwrapOrExitDebug
    \/ UnwrapOrExitLog
    \/ WithErrFun
    \/ Convert
    \/ Consume
    \/ Printer
    \/ Exit
    \/ MapErrReturn

SpecResult == InitResult /\ [][NextResult]_vars


\* ------------------------------------------------------------------------
\* Properties of SpecResult
\* ------------------------------------------------------------------------
IsPrefix(p, q) == Len(p) <= Len(q) /\ p = SubSeq(q, 1, Len(p))

\* Names of the Log and LogOwned methods of a level.
BorrowingMethod(l) == "log_" \o l
OwningMethod(l) == ("log_" \o l) \o "_owned"

LoggerEvents == SelectSeq(events, LAMBDA e : e.kind \in {"Log", "LogOwned"})

\* C7: log_<level> on a success never calls the logger and returns the
\* same success; on a failure it makes exactly one logger call, the
\* borrowing method of that level with the message and the original
\* error, the error is never moved, and the same failure is returned.
C7_LogLevelPassesThrough ==
    call.name = "log" =>
        IF result.tag = "Ok"
        THEN events = <<>> /\ rpc = "done" /\ returned = result
        ELSE LET logged == LogEvent(BorrowingMethod(call.level),
                                    call.message, Owned(result.err))
             IN /\ IsPrefix(events, <<logged>>)
                /\ held = Owned(result.err)
                /\ returned \in {NoValue, result}
                /\ rpc = "done" => events = <<logged>> /\ returned = result

\* log_warning on a failure has returned.
C7_Witness ==
    /\ call.name = "log" /\ call.level = "warning"
    /\ result = Err(<<"m0", "io">>)
    /\ rpc = "done" /\ returned = result /\ Len(events) = 1

\* C8: log_<level>_and_replace_with on a failure performs, in this order
\* and each once, the call f(&error) on the original error while it is
\* still owned, then the owning logger call of the same level that
\* consumes the original error, and returns a failure holding the value f
\* returned; on a success neither is called and the success is returned.
C8_ReplaceWithConvertsThenConsumes ==
    call.name = "log_and_replace_with" =>
        IF result.tag = "Ok"
        THEN events = <<>> /\ rpc = "done" /\ returned = result
        ELSE LET e == Owned(result.err)
                 expected ==
                     <<ConvertEvent(call.convert, e),
                       LogOwnedEvent(OwningMethod(call.level),
                                     call.message, e)>>
             IN /\ IsPrefix(events, expected)
                /\ held = (IF Len(events) = 2 THEN Moved ELSE e)
                /\ rpc = "done" =>
                       /\ events = expected
                       /\ returned = Err(ApplyConvert(call.convert, e))

\* log_debug_and_replace_with on a failure with a source has returned the
\* category computed from the error.
C8_Witness ==
    /\ call.name = "log_and_replace_with" /\ call.level = "debug"
    /\ call.convert.name = "has_source"
    /\ result = Err(<<"m0", "io">>)
    /\ rpc = "done" /\ returned = Err("E500") /\ Len(events) = 2

UnwrapFamily ==
    {"unwrap_or_exit_custom", "unwrap_or_exit", "unwrap_or_exit_display",
     "unwrap_or_exit_debug", "unwrap_or_exit_log"}

\* The one printer or logger call each member makes with the error.
ExpectedPrinterEvent(name, e) ==
    CASE name = "unwrap_or_exit_custom" -> PrinterEvent(Owned(e))
      [] name = "unwrap_or_exit" ->
            EprintlnEvent("Error: " \o Joined(e, ": "))
      [] name = "unwrap_or_exit_display" -> EprintlnEvent("Error: " \o e[1])
      [] name = "unwrap_or_exit_debug" ->
            EprintlnEvent("Error: " \o Debug(e))
      [] name = "unwrap_or_exit_log" ->
            LogOwnedEvent("log_error_owned", "Error", Owned(e))

\* C9: every member of the unwrap-or-exit family returns the value of a
\* success without a printer or logger call and without exiting; on a
\* failure it calls the printer (or log_error_owned) exactly once with the
\* error, then exits once with status 2, and never returns.  unwrap_or_exit
\* prints "Error: " followed by the chain joined with ": ".
C9_UnwrapOrExit ==
    call.name \in UnwrapFamily =>
        IF result.tag = "Ok"
        THEN /\ events = <<>> /\ exit_status = -1
             /\ rpc = "done" /\ returned = Value(result.val)
        ELSE LET expected ==
                     <<ExpectedPrinterEvent(call.name, result.err),
                       ExitEvent(2)>>
             IN /\ IsPrefix(events, expected)
                /\ returned = NoValue /\ rpc # "done"
                /\ exit_status = (IF events = expected THEN 2 ELSE -1)
                /\ rpc = "exited" <=> events = expected

\* unwrap_or_exit on a failure with a source has printed and exited.
C9_Witness ==
    /\ call.name = "unwrap_or_exit"
    /\ result = Err(<<"m0", "io">>)
    /\ rpc = "exited" /\ exit_status = 2
    /\ events[1] = EprintlnEvent("Error: m0: io")

LogResultMethods == {"log", "log_and_replace", "log_and_replace_with"}

\* C10: log_<level>_and_replace on a failure makes exactly one logger
\* call, the owning method of that level, which consumes the original
\* error, and returns a failure holding exactly the replacement; on a
\* success it makes no logger call and returns the success.  For every
\* LogResult method the returned value is a failure iff the receiver is,
\* and a failure has been passed to the logger before the return.
C10_ReplaceAndNeverRecover ==
    /\ call.name = "log_and_replace" =>
           IF result.tag = "Ok"
           THEN events = <<>> /\ rpc = "done" /\ returned = result
           ELSE LET logged == LogOwnedEvent(OwningMethod(call.level),
                                  call.message, Owned(result.err))
                IN /\ IsPrefix(LoggerEvents, <<logged>>)
                   /\ rpc = "done" =>
                          /\ LoggerEvents = <<logged>>
                          /\ held = Moved
                          /\ returned = Err(call.convert.value)
    /\ (call.name \in LogResultMethods /\ rpc = "done") =>
           /\ returned.tag = "Err" <=> result.tag = "Err"
           /\ result.tag = "Err" =>
                  /\ Len(LoggerEvents) = 1
                  /\ LoggerEvents[1].error = Owned(result.err)

\* log_info_and_replace on a failure has returned the replacement.
C10_Witness ==
    /\ call.name = "log_and_replace" /\ call.level = "info"
    /\ result = Err(<<"io">>)
    /\ rpc = "done" /\ returned = Err("E404") /\ held = Moved


\* ------------------------------------------------------------------------
\* result.rs: LogOwned and Log on a logger, impl_log_owned! and `&mut T`
\* ------------------------------------------------------------------------
\* The logger is a type T that implements Log itself and has LogOwned from
\* impl_log_owned!(T); the receiver of the user's call is T behind
\* 0..MaxWrap layers of `&mut`.
Tiers == {"owned", "borrowing"}

Method(tier, l) == [tier |-> tier, level |-> l]

\* trait Log: the name of the method of a level.
log_trait_method(l) == "log_" \o l

\* impl<T: LogOwned> LogOwned for &mut T: the level of the log_*_owned
\* method of T that log_<level>_owned forwards to.
forward_owned_level(l) ==
    CASE l = "error" -> "error"
      [] l = "warning" -> "warning"
      [] l = "info" -> "info"
      [] l = "debug" -> "debug"
      [] l = "trace" -> "trace"

\* log_info_owned generated with a call of Log::log_debug.
bridged_level_info_as_debug(l) ==
    CASE l = "error" -> "error"
      [] l = "warning" -> "warning"
      [] l = "info" -> "debug"
      [] l = "debug" -> "debug"
      [] l = "trace" -> "trace"

\* impl_log_owned!: the level of the Log method that log_<level>_owned
\* calls.
bridged_level(l) ==
    CASE l = "error" -> "error"
      [] l = "warning" -> "warning"
      [] l = "info" -> "info"
      [] l = "debug" -> "debug"
      [] l = "trace" -> "trace"

\* impl<T: Log> Log for &mut T: the level of the Log method of T that
\* log_<level> forwards to.
forward_level(l) ==
    CASE l = "error" -> "error"
      [] l = "warning" -> "warning"
      [] l = "info" -> "info"
      [] l = "debug" -> "debug"
      [] l = "trace" -> "trace"

InitLogger ==
    /\ \E t \in Tiers, l \in Levels, m \in LogMessages, e \in Chains,
          w \in 0..MaxWrap :
          /\ lcall = [tier |-> t, level |-> l, message |-> m, error |-> e,
                      wrappers |-> w]
          /\ wrappers = w
          /\ lmethod = Method(t, l)
          /\ lerror = Owned(e)
    /\ observed = <<>>
    /\ lpc = "call"
    /\ ArithIdle
    /\ JoinIdle
    /\ ResultIdle
    /\ TermIdle

\* <&mut T as LogOwned>::log_<level>_owned:
\* (*self).log_<level>_owned(message, error); the error is moved on.
ForwardOwned ==
    /\ lpc = "call"
    /\ lmethod.tier = "owned"
    /\ wrappers > 0
    /\ wrappers' = wrappers - 1
    /\ lmethod' = Method("owned", forward_owned_level(lmethod.level))
    /\ UNCHANGED <<lcall, lerror, observed, lpc>>
    /\ UNCHANGED arithVars
    /\ UNCHANGED joinVars
    /\ UNCHANGED resultVars
    /\ UNCHANGED termVars

\* impl_log_owned!: Log::log_<level>(self, message, &error); the error is
\* lent to the call and stays owned by this frame.
BridgeOwned ==
    /\ lpc = "call"
    /\ lmethod.tier = "owned"
    /\ wrappers = 0
    /\ lmethod' = Method("borrowing", bridged_level(lmethod.level))
    /\ UNCHANGED <<lcall, wrappers, lerror, observed, lpc>>
    /\ UNCHANGED arithVars
    /\ UNCHANGED joinVars
    /\ UNCHANGED resultVars
    /\ UNCHANGED termVars

\* <&mut T as Log>::log_<level>: (*self).log_<level>(message, error)
ForwardBorrowing ==
    /\ lpc = "call"
    /\ lmethod.tier = "borrowing"
    /\ wrappers > 0
    /\ wrappers' = wrappers - 1
    /\ lmethod' = Method("borrowing", forward_level(lmethod.level))
    /\ UNCHANGED <<lcall, lerror, observed, lpc>>
    /\ UNCHANGED arithVars
    /\ UNCHANGED joinVars
    /\ UNCHANGED resultVars
    /\ UNCHANGED termVars

\* <T as Log>::log_<level>: the logger's own method is reached and sees
\* the message and the error it is lent.
LogReached ==
    /\ lpc = "call"
    /\ lmethod.tier = "borrowing"
    /\ wrappers = 0
    /\ observed' = Append(observed,
                          LogEvent(log_trait_method(lmethod.level),
                                   lcall.message, lerror))
    /\ lpc' = "logged"
    /\ UNCHANGED <<lcall, wrappers, lmethod, lerror>>
    /\ UNCHANGED arithVars
    /\ UNCHANGED joinVars
    /\ UNCHANGED resultVars
    /\ UNCHANGED termVars

\* The calls return.  An error passed by value is dropped at the end of
\* the impl_log_owned! method that owns it; a borrowed error stays with
\* the caller.
LogReturn ==
    /\ lpc = "logged"
    /\ lerror' = IF lcall.tier = "owned" THEN Moved ELSE lerror
    /\ lpc' = "done"
    /\ UNCHANGED <<lcall, wrappers, lmethod, observed>>
    /\ UNCHANGED arithVars
    /\ UNCHANGED joinVars
    /\ UNCHANGED resultVars
    /\ UNCHANGED termVars

NextLogger ==
    \/ ForwardOwned
    \/ BridgeOwned
    \/ ForwardBorrowing
    \/ LogReached
    \/ LogReturn

SpecLogger == InitLogger /\ [][NextLogger]_vars

\* ------------------------------------------------------------------------
\* Properties of SpecLogger
\* ------------------------------------------------------------------------
\* C11: a call of log_<level>_owned(message, error) on a logger that has
\* LogOwned from impl_log_owned!, made directly or through `&mut`
\* wrappers, results in exactly one call of the logger's own log_<level>
\* of the same level with the same message and the still-live error, and
\* in no other call; a call of log_<level> through `&mut` wrappers does
\* the same, so what the logger observes does not depend on the tier.
C11_OwnedBridgesToSameLevel ==
    lcall # NoCall =>
        LET seen == LogEvent(BorrowingMethod(lcall.level), lcall.message,
                             Owned(lcall.error))
        IN /\ IsPrefix(observed, <<seen>>)
           /\ lpc \in {"logged", "done"} => observed = <<seen>>
           /\ lpc = "done" =>
                  lerror = (IF lcall.tier = "owned" THEN Moved
                            ELSE Owned(lcall.error))

\* log_info_owned through `&mut &mut T` has returned.
C11_Witness ==
    /\ lcall # NoCall
    /\ lcall.tier = "owned" /\ lcall.level = "info" /\ lcall.wrappers = 2
    /\ lpc = "done" /\ Len(observed) = 1 /\ lerror = Moved


\* ------------------------------------------------------------------------
\* error.rs: BoxedError, TerminatingError and MultilineTerminator
\* ------------------------------------------------------------------------
\* BoxedError::new: BoxedError(Box::new(error))
BoxedError_new(e) == [boxed |-> e]

\* <BoxedError as Display>::fmt: fmt::Display::fmt(&*self.0, f)
BoxedError_fmt(b) == Display(b.boxed)

\* source() returning the wrapped error itself.
BoxedError_source_wrapped(b) == b.boxed

\* <BoxedError as Error>::source: self.0.source(), the chain that starts
\* at the source of the wrapped error (empty for None).
BoxedError_source(b) == Tail(b.boxed)

\* The causal chain of a BoxedError as join_sources walks it: its own
\* Display, then what its source() leads to.
BoxedError_chain(b) == <<BoxedError_fmt(b)>> \o BoxedError_source(b)

\* MultilineTerminator::write_prefix, given args_os().next()
write_prefix(a0) ==
    IF a0.tag = "Some" THEN "Application " \o (a0.val \o " failed: ")
    ELSE "Application failed: "

\* MultilineTerminator::error_separator
error_separator == "\n\tcaused by: "

\* Argument zero of the process.
Arg0s == {None, Some("app"), Some("./target/debug/tool")}

InitTerm ==
    /\ value \in Chains
    /\ arg0 \in Arg0s
    /\ terminating = NoValue
    /\ tpc = "from"
    /\ ArithIdle
    /\ JoinIdle
    /\ ResultIdle
    /\ LoggerIdle

\* From<E> for TerminatingError<T, BoxedError>::from
From ==
    /\ tpc = "from"
    /\ terminating' = [error |-> BoxedError_new(value)]
    /\ tpc' = "debug"
    /\ UNCHANGED <<value, arg0>>
    /\ UNCHANGED arithVars
    /\ UNCHANGED joinVars
    /\ UNCHANGED resultVars
    /\ UNCHANGED loggerVars

\* <TerminatingError as Debug>::fmt: T::write_prefix(&mut *f)?;
WritePrefix ==
    /\ tpc = "debug"
    /\ f' = f \o write_prefix(arg0)
    /\ tpc' = "prefix"
    /\ UNCHANGED <<value, terminating, arg0>>
    /\ UNCHANGED <<error, separator, source, fpc>>
    /\ UNCHANGED arithVars
    /\ UNCHANGED resultVars
    /\ UNCHANGED loggerVars

\* <TerminatingError as Debug>::fmt:
\* Display::fmt(&self.error.join_sources(T::error_separator()), f), which
\* builds the JoinErrorSources and enters its fmt.
JoinSources ==
    /\ tpc = "prefix"
    /\ error' = BoxedError_chain(terminating.error)
    /\ separator' = error_separator
    /\ fpc' = "start"
    /\ tpc' = "join"
    /\ UNCHANGED <<value, terminating, arg0>>
    /\ UNCHANGED <<source, f>>
    /\ UNCHANGED arithVars
    /\ UNCHANGED resultVars
    /\ UNCHANGED loggerVars

NextTerm ==
    \/ From
    \/ WritePrefix
    \/ JoinSources
    \/ FmtError
    \/ FmtSeparator
    \/ FmtSource
    \/ FmtReturn

SpecTerm == InitTerm /\ [][NextTerm]_vars

\* ------------------------------------------------------------------------
\* Properties of SpecTerm
\* ------------------------------------------------------------------------
\* C12: an error with chain m0..mN converted into the TerminatingError and
\* rendered gives exactly <prefix> m0 <sep> m1 ... <sep> mN with <sep> =
\* newline, tab, "caused by: " and <prefix> = "Application <arg0> failed: "
\* ("Application failed: " without argument zero); the BoxedError has the
\* message m0 and the source of the error, so the text is the prefix
\* followed by the error's own chain join.
C12_TerminatingErrorRenders ==
    /\ terminating # NoValue =>
           /\ BoxedError_fmt(terminating.error) = value[1]
           /\ BoxedError_source(terminating.error) = Tail(value)
    /\ (tpc = "join" /\ fpc = "done") =>
           f = (IF arg0 = None THEN "Application failed: "
                ELSE "Application " \o (arg0.val \o " failed: "))
               \o Joined(value, "\n\tcaused by: ")

\* The error [m0, io] has been rendered for the program started as app.
C12_Witness ==
    /\ tpc = "join" /\ fpc = "done"
    /\ value = <<"m0", "io">> /\ arg0 = Some("app")
    /\ f = "Application app failed: m0\n\tcaused by: io"

=============================================================================
